---- MODULE Spec2Model ----
(***************************************************************************)
(* Model of cli.py: the command line entry point (class CLI).  A process   *)
(* constructs CLI(), and run() ensures the four run directories exist and  *)
(* then runs the executor selected by the subcommand.  Python strings are  *)
(* sequences of one-character strings; the filesystem is shared by the     *)
(* concurrently running invocations of the program.                        *)
(***************************************************************************)
EXTENDS Integers, Sequences, FiniteSets, TLC

(* ---------------------------------------------------------------------- *)
(* Bounds of the model                                                     *)
(* ---------------------------------------------------------------------- *)
\* option groups that follow the subcommand on a generated command line
MaxOpts == 2
\* filesystem entries that exist before the first invocation starts
MaxPre == 1

Procs == {1, 2}

(* ---------------------------------------------------------------------- *)
(* String literals                                                         *)
(* ---------------------------------------------------------------------- *)
None == <<"<None>">>

s_train == <<"t","r","a","i","n">>
s_evaluate == <<"e","v","a","l","u","a","t","e">>
s_record == <<"r","e","c","o","r","d">>
s_search == <<"s","e","a","r","c","h">>
s_bogus == <<"b","o","g","u","s">>
s_other == <<"o","t","h","e","r">>
s_dev == <<"d","e","v">>
s_test == <<"t","e","s","t">>
s_mfcc == <<"m","f","c","c">>
s_power == <<"p","o","w","e","r">>
s_noname == <<"n","o","n","a","m","e">>
s_data == <<"d","a","t","a">>
s_log == <<"l","o","g">>
s_abc == <<"a","b","c">>
s_32 == <<"3","2">>
s_r == <<"r">>
s_tslash == <<"t","/">>
s_de == <<"d","/","e">>

o_mfcc == <<"-","-","m","f","c","c">>
o_power == <<"-","-","p","o","w","e","r">>
o_batch_size == <<"-","-","b","a","t","c","h","-","s","i","z","e">>
o_run_name == <<"-","-","r","u","n","-","n","a","m","e">>
o_data_dir == <<"-","-","d","a","t","a","-","d","i","r">>
o_train_dir == <<"-","-","t","r","a","i","n","-","d","i","r">>
o_log_dir == <<"-","-","l","o","g","-","d","i","r">>
o_learning_rate == <<"-","-","l","e","a","r","n","i","n","g","-","r","a","t","e">>
o_reset_learning_rate == <<"-","-","r","e","s","e","t","-","l","e","a","r","n","i","n","g","-","r","a","t","e">>
o_learning_rate_decay_factor == o_learning_rate \o <<"-","d","e","c","a","y","-","f","a","c","t","o","r">>
o_momentum == <<"-","-","m","o","m","e","n","t","u","m">>
o_max_gradient_norm == <<"-","-","m","a","x","-","g","r","a","d","i","e","n","t","-","n","o","r","m">>
o_limit_training_set == <<"-","-","l","i","m","i","t","-","t","r","a","i","n","i","n","g","-","s","e","t">>
o_steps_per_checkpoint == <<"-","-","s","t","e","p","s","-","p","e","r","-","c","h","e","c","k","p","o","i","n","t">>
o_language_model == <<"-","-","l","a","n","g","u","a","g","e","-","m","o","d","e","l">>
o_dev == <<"-","-","d","e","v">>
o_test == <<"-","-","t","e","s","t">>
o_no_save == <<"-","-","n","o","-","s","a","v","e">>
o_epoch_count == <<"-","-","e","p","o","c","h","-","c","o","u","n","t">>
o_input_size == <<"-","-","i","n","p","u","t","-","s","i","z","e">>
o_population_size == <<"-","-","p","o","p","u","l","a","t","i","o","n","-","s","i","z","e">>
o_noise_std == <<"-","-","n","o","i","s","e","-","s","t","d">>
o_ui == <<"-","-","u","i">>

Sep == "/"

(* ---------------------------------------------------------------------- *)
(* Value conversions of argparse (type=int, type=float)                    *)
(* ---------------------------------------------------------------------- *)
Digits == {"0","1","2","3","4","5","6","7","8","9"}

DigitVal(c) == CASE c = "0" -> 0 [] c = "1" -> 1 [] c = "2" -> 2 [] c = "3" -> 3
                 [] c = "4" -> 4 [] c = "5" -> 5 [] c = "6" -> 6 [] c = "7" -> 7
                 [] c = "8" -> 8 [] c = "9" -> 9

\* int(s) succeeds on a non-empty run of decimal digits
IsIntAny(s) == TRUE
IsInt(s) == Len(s) > 0 /\ \A k \in 1..Len(s) : s[k] \in Digits

RECURSIVE ToInt(_)
ToInt(s) == IF Len(s) = 0 THEN 0
            ELSE 10 * ToInt(SubSeq(s, 1, Len(s) - 1)) + DigitVal(s[Len(s)])

\* float(s) succeeds on digits with at most one decimal point
IsFloat(s) == /\ \E k \in 1..Len(s) : s[k] \in Digits
              /\ \A k \in 1..Len(s) : s[k] \in Digits \cup {"."}
              /\ Cardinality({k \in 1..Len(s) : s[k] = "."}) <= 1

(* ---------------------------------------------------------------------- *)
(* Option schema: CLI.__init__ and the _add_*_parser methods               *)
(* ---------------------------------------------------------------------- *)
Store(flag, dest, type) ==
    [flag |-> flag, dest |-> dest, action |-> "store", type |-> type, const |-> None]
StoreConst(flag, dest, const) ==
    [flag |-> flag, dest |-> dest, action |-> "store_const", type |-> "none", const |-> const]

\* _create_base_parser: the options shared by every subcommand
BaseOptionsUntyped ==
    << StoreConst(o_mfcc, "feature_type", s_mfcc),
       StoreConst(o_power, "feature_type", s_power),
       Store(o_batch_size, "batch_size", "str"),
       Store(o_run_name, "run_name", "str"),
       Store(o_data_dir, "data_dir", "str"),
       Store(o_train_dir, "train_dir", "str"),
       Store(o_log_dir, "log_dir", "str") >>
BaseOptions ==
    << StoreConst(o_mfcc, "feature_type", s_mfcc),
       StoreConst(o_power, "feature_type", s_power),
       Store(o_batch_size, "batch_size", "int"),
       Store(o_run_name, "run_name", "str"),
       Store(o_data_dir, "data_dir", "str"),
       Store(o_train_dir, "train_dir", "str"),
       Store(o_log_dir, "log_dir", "str") >>

BaseDefaults(cmd) ==
    [command |-> cmd, feature_type |-> s_power, batch_size |-> 64,
     run_name |-> s_noname, data_dir |-> s_data, train_dir |-> s_train,
     log_dir |-> s_log]

LanguageModelOption == << Store(o_language_model, "language_model", "str") >>

TrainingOptions ==
    BaseOptions \o
    << Store(o_learning_rate, "learning_rate", "float"),
       StoreConst(o_reset_learning_rate, "reset_learning_rate", TRUE),
       Store(o_learning_rate_decay_factor, "learning_rate_decay_factor", "float"),
       Store(o_momentum, "momentum", "float"),
       Store(o_max_gradient_norm, "max_gradient_norm", "float"),
       Store(o_limit_training_set, "limit_training_set", "int"),
       Store(o_steps_per_checkpoint, "steps_per_checkpoint", "int") >>

\* float defaults are kept as their literal text
TrainingDefaults ==
    BaseDefaults(s_train) @@
    [learning_rate |-> <<"1","e","-","3">>, reset_learning_rate |-> FALSE,
     learning_rate_decay_factor |-> <<"0">>, momentum |-> <<"0",".","9">>,
     max_gradient_norm |-> <<"5",".","0">>, limit_training_set |-> 0,
     steps_per_checkpoint |-> 1000]

EvaluationOptions ==
    BaseOptions \o
    << StoreConst(o_dev, "dataset", s_dev),
       StoreConst(o_test, "dataset", s_test),
       StoreConst(o_no_save, "should_save", FALSE),
       Store(o_epoch_count, "epoch_count", "int") >> \o LanguageModelOption

EvaluationDefaults ==
    BaseDefaults(s_evaluate) @@
    [dataset |-> s_test, should_save |-> TRUE, epoch_count |-> 1,
     language_model |-> None]

RecordingOptions ==
    BaseOptions \o << Store(o_input_size, "input_size", "int") >> \o LanguageModelOption

RecordingDefaults ==
    BaseDefaults(s_record) @@ [input_size |-> 128, language_model |-> None]

ParameterSearchOptions ==
    BaseOptions \o
    << Store(o_population_size, "population_size", "int"),
       Store(o_noise_std, "noise_std", "float"),
       StoreConst(o_ui, "use_ui", TRUE) >> \o LanguageModelOption

ParameterSearchDefaults ==
    BaseDefaults(s_search) @@
    [population_size |-> 10, noise_std |-> <<"0",".","5">>, use_ui |-> FALSE,
     language_model |-> None]

\* the names registered with add_parser
Subcommands == {s_train, s_evaluate, s_record, s_search}

Options(cmd) == CASE cmd = s_train -> TrainingOptions
                  [] cmd = s_evaluate -> EvaluationOptions
                  [] cmd = s_record -> RecordingOptions
                  [] cmd = s_search -> ParameterSearchOptions

Defaults(cmd) == CASE cmd = s_train -> TrainingDefaults
                   [] cmd = s_evaluate -> EvaluationDefaults
                   [] cmd = s_record -> RecordingDefaults
                   [] cmd = s_search -> ParameterSearchDefaults

(* ---------------------------------------------------------------------- *)
(* parser.parse_args()                                                     *)
(* ---------------------------------------------------------------------- *)
\* parser.error(): usage message and exit status 2
ParseError == [error |-> 2]
IsError(r) == "error" \in DOMAIN r

\* argparse takes a token that starts with '-' for an option string
IsOptionString(tok) == Len(tok) > 0 /\ tok[1] = "-"

FindOpt(opts, tok) ==
    IF \E k \in 1..Len(opts) : opts[k].flag = tok
    THEN CHOOSE k \in 1..Len(opts) : opts[k].flag = tok
    ELSE 0

TypeOk(type, s) == CASE type = "int" -> IsInt(s)
                     [] type = "float" -> IsFloat(s)
                     [] OTHER -> TRUE

Convert(type, s) == IF type = "int" THEN ToInt(s) ELSE s

\* the subparser: options only, no positional arguments
RECURSIVE ParseOpts(_, _, _)
ParseOpts(toks, opts, ns) ==
    IF toks = <<>> THEN ns
    ELSE IF ~IsOptionString(toks[1]) THEN ParseError
    ELSE LET k == FindOpt(opts, toks[1]) IN
         IF k = 0 THEN ParseError
         ELSE IF opts[k].action = "store_const"
         THEN ParseOpts(Tail(toks), opts, [ns EXCEPT ![opts[k].dest] = opts[k].const])
         ELSE IF Len(toks) < 2 THEN ParseError
         ELSE IF IsOptionString(toks[2]) THEN ParseError
         ELSE IF ~TypeOk(opts[k].type, toks[2]) THEN ParseError
         ELSE ParseOpts(SubSeq(toks, 3, Len(toks)), opts,
                        [ns EXCEPT ![opts[k].dest] = Convert(opts[k].type, toks[2])])

\* the top-level parser: the subcommand is optional, and without one the
\* namespace holds nothing but command = None
ParseArgs(args) ==
    IF args = <<>> THEN [command |-> None]
    ELSE IF IsOptionString(args[1]) THEN ParseError
    ELSE IF args[1] \notin Subcommands THEN ParseError
    ELSE ParseOpts(Tail(args), Options(args[1]), Defaults(args[1]))

(* ---------------------------------------------------------------------- *)
(* Derived fields of CLI.parsed                                            *)
(* ---------------------------------------------------------------------- *)
RunTypeNoDataset(ns) ==
    IF ns.command = s_train THEN s_train
    ELSE IF ns.command = s_evaluate THEN s_test
    ELSE IF ns.command = s_record THEN s_record
    ELSE s_other
RunType(ns) ==
    IF ns.command = s_train THEN s_train
    ELSE IF ns.command = s_evaluate THEN ns.dataset
    ELSE IF ns.command = s_record THEN s_record
    ELSE s_other

JoinNormalised(train_dir, run_name) ==
    IF Len(train_dir) > 0 /\ train_dir[Len(train_dir)] = Sep
    THEN train_dir \o run_name
    ELSE train_dir \o <<Sep>> \o run_name
RunTrainDir(train_dir, run_name) == train_dir \o <<Sep>> \o run_name

HasAttr(ns, a) == a \in DOMAIN ns

\* command_executor: the classes keyed by subcommand
Registry == [c \in Subcommands |->
               CASE c = s_train -> "Training"
                 [] c = s_evaluate -> "Evaluation"
                 [] c = s_record -> "Recording"
                 [] c = s_search -> "LanguageModelParameterSearch"]

(* ---------------------------------------------------------------------- *)
(* Paths and the filesystem (os.path.split, os.path.exists, os.mkdir)      *)
(* ---------------------------------------------------------------------- *)
\* the names of a path, as the kernel walks them: empty names are skipped
RECURSIVE Components(_)
Components(s) ==
    IF s = <<>> THEN <<>>
    ELSE IF \A k \in 1..Len(s) : s[k] # Sep THEN <<s>>
    ELSE LET k == CHOOSE j \in 1..Len(s) : s[j] = Sep /\ \A h \in 1..(j - 1) : s[h] # Sep
         IN  IF k = 1 THEN Components(Tail(s))
             ELSE <<SubSeq(s, 1, k - 1)>> \o Components(SubSeq(s, k + 1, Len(s)))

RFind(s) == IF \E k \in 1..Len(s) : s[k] = Sep
            THEN CHOOSE k \in 1..Len(s) : s[k] = Sep /\ \A h \in (k + 1)..Len(s) : s[h] # Sep
            ELSE 0

RECURSIVE RStrip(_)
RStrip(s) == IF Len(s) > 0 /\ s[Len(s)] = Sep THEN RStrip(SubSeq(s, 1, Len(s) - 1)) ELSE s

\* posixpath.split: <<head, tail>>
PathSplit(s) ==
    LET k == RFind(s)
        head == SubSeq(s, 1, k)
        tail == SubSeq(s, k + 1, Len(s))
    IN  IF head # <<>> /\ \E h \in 1..Len(head) : head[h] # Sep
        THEN <<RStrip(head), tail>>
        ELSE <<head, tail>>

TrailingSep(s) == Len(s) > 0 /\ s[Len(s)] = Sep

\* the values the generated command lines give to the directory options
TrainDirs == {s_train, s_tslash}
RunNames == {s_noname, s_r}
DataDirs == {s_data, s_de}
LogDirs == {s_log}

AllPaths == TrainDirs \cup DataDirs \cup LogDirs
            \cup {RunTrainDir(t, r) : t \in TrainDirs, r \in RunNames}

\* the entries of the working directory the program can touch
FsNodes == UNION {{SubSeq(Components(q), 1, k) : k \in 1..Len(Components(q))} : q \in AllPaths}
Cwd == <<>>

IsDirKind(k) == k \in {"dir", "rodir"}
Kind(f, node) == IF node \in DOMAIN f THEN f[node] ELSE "absent"
Parent(node) == SubSeq(node, 1, Len(node) - 1)

\* every entry lies in a directory
FsConsistent(f) == \A n \in DOMAIN f \ {Cwd} : f[n] # "absent" => IsDirKind(f[Parent(n)])

\* os.path.exists: stat succeeds (a trailing separator asks for a directory)
PathExistsNever(f, path) == FALSE
PathExists(f, path) ==
    /\ path # <<>>
    /\ LET node == Components(path) IN
         /\ \A k \in 0..(Len(node) - 1) : IsDirKind(Kind(f, SubSeq(node, 1, k)))
         /\ Kind(f, node) # "absent"
         /\ TrailingSep(path) => IsDirKind(Kind(f, node))

\* os.mkdir: "ok" or the OSError it raises
MkdirResult(f, path) ==
    IF path = <<>> THEN "FileNotFoundError"
    ELSE LET node == Components(path) IN
         IF \E k \in 0..(Len(node) - 1) : Kind(f, SubSeq(node, 1, k)) = "absent"
         THEN "FileNotFoundError"
         ELSE IF \E k \in 0..(Len(node) - 1) : Kind(f, SubSeq(node, 1, k)) = "file"
         THEN "NotADirectoryError"
         ELSE IF Kind(f, node) # "absent" THEN "FileExistsError"
         ELSE IF Kind(f, Parent(node)) = "rodir" THEN "PermissionError"
         ELSE "ok"

(* ---------------------------------------------------------------------- *)
(* State                                                                   *)
(* ---------------------------------------------------------------------- *)
VARIABLES
    fs,          \* the shared filesystem: entry -> "absent", "file", "dir", "rodir"
    argv,        \* sys.argv[1:] of each process
    pc,          \* position of each process
    stmt,        \* index of the statement of run() being executed
    ns,          \* the namespace returned by parse_args
    cache,       \* the value of the lazy attribute parsed
    pending,     \* parsed has just been computed for the read that asked for it
    ret,         \* where the computation of parsed returns to
    parseCount,  \* number of calls of parse_args
    reads,       \* the instances the reads of self.parsed returned
    dirs,        \* the list directories of _ensure_directories
    i,           \* index of the for loop over directories
    stack,       \* the names of the active calls of os.makedirs
    cls,         \* the class the registry lookup returned
    executor,    \* the value of the lazy attribute command_executor
    made,        \* number of executors constructed
    ran,         \* number of calls of the executor's run()
    created,     \* the entries each process created
    err,         \* the exception that ended the process
    prior        \* the processes whose _ensure_directories had returned when this one's loop began

vars == <<fs, argv, pc, stmt, ns, cache, pending, ret, parseCount, reads, dirs, i,
          stack, cls, executor, made, ran, created, err, prior>>

NoNs == [none |-> TRUE]
NoConfig == [none |-> TRUE]
NoExecutor == [none |-> TRUE]

Terminal == {"done", "exit_usage", "attr_error", "key_error", "io_error"}
Aborted == Terminal \ {"done"}

(* ---------------------------------------------------------------------- *)
(* Initial states                                                          *)
(* ---------------------------------------------------------------------- *)
RECURSIVE Flatten(_)
Flatten(groups) == IF groups = <<>> THEN <<>> ELSE Head(groups) \o Flatten(Tail(groups))

OptGroups == { <<o_dev>>, <<o_test>>, <<o_batch_size, s_32>>, <<o_batch_size, s_abc>>,
               <<o_run_name, s_r>>, <<o_train_dir, s_tslash>>, <<o_data_dir, s_de>> }

CommandWords == Subcommands \cup {s_bogus}

Argvs == {<<>>} \cup
         { <<c>> \o Flatten(g) : c \in CommandWords,
                                 g \in UNION {[1..n -> OptGroups] : n \in 0..MaxOpts} }

RaceArgvs == { <<s_train>>, <<s_evaluate, o_data_dir, s_de>> }

InitialFs ==
    { f \in UNION { { [n \in FsNodes \cup {Cwd} |->
                         IF n = Cwd THEN cw ELSE IF n \in S THEN k[n] ELSE "absent"]
                      : k \in [S -> {"file", "dir"}], cw \in {"dir", "rodir"} }
                    : S \in {T \in SUBSET FsNodes : Cardinality(T) <= MaxPre} }
      : FsConsistent(f) }

InitProcess ==
    /\ stmt = [p \in Procs |-> 0]
    /\ ns = [p \in Procs |-> NoNs]
    /\ cache = [p \in Procs |-> NoConfig]
    /\ pending = [p \in Procs |-> FALSE]
    /\ ret = [p \in Procs |-> "none"]
    /\ parseCount = [p \in Procs |-> 0]
    /\ reads = [p \in Procs |-> <<>>]
    /\ dirs = [p \in Procs |-> <<>>]
    /\ i = [p \in Procs |-> 0]
    /\ stack = [p \in Procs |-> <<>>]
    /\ cls = [p \in Procs |-> "none"]
    /\ executor = [p \in Procs |-> NoExecutor]
    /\ made = [p \in Procs |-> 0]
    /\ ran = [p \in Procs |-> 0]
    /\ created = [p \in Procs |-> {}]
    /\ err = [p \in Procs |-> "none"]
    /\ prior = [p \in Procs |-> {}]

\* one invocation of the program, any generated command line
Init ==
    /\ fs \in InitialFs
    /\ \E a \in Argvs : argv = [p \in Procs |-> IF p = 1 THEN a ELSE <<>>]
    /\ pc = [p \in Procs |-> IF p = 1 THEN "start" ELSE "absent"]
    /\ InitProcess

\* two invocations of the program running concurrently
InitRace ==
    /\ fs \in InitialFs
    /\ argv \in [Procs -> RaceArgvs]
    /\ pc = [p \in Procs |-> "start"]
    /\ InitProcess

(* ---------------------------------------------------------------------- *)
(* CLI.run and what it calls                                               *)
(* ---------------------------------------------------------------------- *)
IsNone(r) == "none" \in DOMAIN r

\* run(): its statements in order
RunBodyDispatchFirst == <<"command_executor.run", "_ensure_directories">>
RunBody == <<"_ensure_directories", "command_executor.run">>

EntryOf(s) == IF s = "_ensure_directories" THEN "ensure_read" ELSE "lookup"
StmtPc(k) == IF k > Len(RunBody) THEN "done" ELSE EntryOf(RunBody[k])

\* @lazy: the value is computed on the first access and then kept
CacheNever(c) == FALSE
CacheHit(c) == ~IsNone(c)

\* the attributes _ensure_directories reads, in order
DirAttrs == <<"train_dir", "data_dir", "log_dir", "run_train_dir">>

\* a read of self.parsed has to compute the value first
MustCompute(p) == ~pending[p] /\ ~CacheHit(cache[p])

Compute(p, from) ==
    /\ pc' = [pc EXCEPT ![p] = "parse"]
    /\ ret' = [ret EXCEPT ![p] = from]
    /\ UNCHANGED <<fs, argv, stmt, ns, cache, pending, parseCount, reads, dirs, i,
                   stack, cls, executor, made, ran, created, err, prior>>

\* the read returns the instance held by the attribute
Observe(p) ==
    /\ reads' = [reads EXCEPT ![p] = Append(@, cache[p].id)]
    /\ pending' = [pending EXCEPT ![p] = FALSE]

\* cli = CLI(); cli.run()
Main(p) ==
    /\ pc[p] = "start"
    /\ stmt' = [stmt EXCEPT ![p] = 1]
    /\ pc' = [pc EXCEPT ![p] = StmtPc(1)]
    /\ UNCHANGED <<fs, argv, ns, cache, pending, ret, parseCount, reads, dirs, i,
                   stack, cls, executor, made, ran, created, err, prior>>

\* parsed, line 120: self.parser.parse_args()
Parse(p) ==
    /\ pc[p] = "parse"
    /\ parseCount' = [parseCount EXCEPT ![p] = @ + 1]
    /\ LET r == ParseArgs(argv[p]) IN
         IF IsError(r)
         THEN /\ pc' = [pc EXCEPT ![p] = "exit_usage"]
              /\ err' = [err EXCEPT ![p] = "SystemExit"]
              /\ ns' = ns
         ELSE /\ pc' = [pc EXCEPT ![p] = "derive"]
              /\ ns' = [ns EXCEPT ![p] = r]
              /\ err' = err
    /\ UNCHANGED <<fs, argv, stmt, cache, pending, ret, reads, dirs, i, stack, cls,
                   executor, made, ran, created, prior>>

\* parsed, lines 122-133: run_type, run_train_dir, and the value is kept
Derive(p) ==
    /\ pc[p] = "derive"
    /\ LET withType == ns[p] @@ [run_type |-> RunType(ns[p])] IN
         IF HasAttr(withType, "train_dir") /\ HasAttr(withType, "run_name")
         THEN /\ cache' = [cache EXCEPT ![p] =
                             withType @@
                             [run_train_dir |-> RunTrainDir(withType.train_dir, withType.run_name),
                              id |-> parseCount[p]]]
              /\ pending' = [pending EXCEPT ![p] = TRUE]
              /\ pc' = [pc EXCEPT ![p] = ret[p]]
              /\ UNCHANGED <<ns, err>>
         ELSE /\ ns' = [ns EXCEPT ![p] = withType]
              /\ pc' = [pc EXCEPT ![p] = "attr_error"]
              /\ err' = [err EXCEPT ![p] = "AttributeError"]
              /\ UNCHANGED <<cache, pending>>
    /\ UNCHANGED <<fs, argv, stmt, ret, parseCount, reads, dirs, i, stack, cls,
                   executor, made, ran, created, prior>>

\* _ensure_directories, lines 149-152: one read of self.parsed per path
EnsureRead(p) ==
    /\ pc[p] = "ensure_read"
    /\ IF MustCompute(p) THEN Compute(p, "ensure_read")
       ELSE /\ Observe(p)
            /\ dirs' = [dirs EXCEPT ![p] = Append(@, cache[p][DirAttrs[Len(@) + 1]])]
            /\ IF Len(dirs[p]) + 1 = Len(DirAttrs)
               THEN /\ pc' = [pc EXCEPT ![p] = "exists"]
                    /\ i' = [i EXCEPT ![p] = 1]
                    /\ prior' = [prior EXCEPT ![p] =
                                   {q \in Procs \ {p} : i[q] > Len(DirAttrs)}]
               ELSE UNCHANGED <<pc, i, prior>>
            /\ UNCHANGED <<fs, argv, stmt, ns, cache, ret, parseCount, stack, cls,
                           executor, made, ran, created, err>>

\* the for loop moves to the next directory, or _ensure_directories returns
NextDirectory(p) ==
    /\ i' = [i EXCEPT ![p] = @ + 1]
    /\ IF i[p] = Len(dirs[p])
       THEN /\ stmt' = [stmt EXCEPT ![p] = @ + 1]
            /\ pc' = [pc EXCEPT ![p] = StmtPc(stmt[p] + 1)]
       ELSE /\ pc' = [pc EXCEPT ![p] = "exists"]
            /\ stmt' = stmt

\* line 154: if not os.path.exists(directory)
Exists(p) ==
    /\ pc[p] = "exists"
    /\ IF PathExists(fs, dirs[p][i[p]])
       THEN /\ NextDirectory(p)
            /\ stack' = stack
       ELSE /\ stack' = [stack EXCEPT ![p] = <<dirs[p][i[p]]>>]
            /\ pc' = [pc EXCEPT ![p] = "makedirs"]
            /\ UNCHANGED <<i, stmt>>
    /\ UNCHANGED <<fs, argv, ns, cache, pending, ret, parseCount, reads, dirs, cls,
                   executor, made, ran, created, err, prior>>

\* line 155, os.makedirs(name): the missing parent is made by a nested call
MakedirsEnter(p) ==
    /\ pc[p] = "makedirs"
    /\ LET name == stack[p][Len(stack[p])]
           first == PathSplit(name)
           ht == IF first[2] = <<>> THEN PathSplit(first[1]) ELSE first
       IN  IF ht[1] # <<>> /\ ht[2] # <<>> /\ ~PathExists(fs, ht[1])
           THEN /\ stack' = [stack EXCEPT ![p] = Append(@, ht[1])]
                /\ pc' = pc
           ELSE /\ pc' = [pc EXCEPT ![p] = "mkdir"]
                /\ stack' = stack
    /\ UNCHANGED <<fs, argv, stmt, ns, cache, pending, ret, parseCount, reads, dirs, i,
                   cls, executor, made, ran, created, err, prior>>

\* os.makedirs: mkdir(name).  FileExistsError of a nested call is passed
\* over by its caller; the outermost call has exist_ok=False and raises
Mkdir(p) ==
    /\ pc[p] = "mkdir"
    /\ LET name == stack[p][Len(stack[p])]
           res == MkdirResult(fs, name)
           nested == Len(stack[p]) > 1
           popped == SubSeq(stack[p], 1, Len(stack[p]) - 1)
       IN  /\ IF res = "ok"
              THEN /\ fs' = [fs EXCEPT ![Components(name)] = "dir"]
                   /\ created' = [created EXCEPT ![p] = @ \cup {Components(name)}]
              ELSE UNCHANGED <<fs, created>>
           /\ IF res = "ok" \/ (res = "FileExistsError" /\ nested)
              THEN /\ stack' = [stack EXCEPT ![p] = popped]
                   /\ err' = err
                   /\ IF nested
                      THEN UNCHANGED <<pc, i, stmt>>
                      ELSE NextDirectory(p)
              ELSE /\ pc' = [pc EXCEPT ![p] = "io_error"]
                   /\ err' = [err EXCEPT ![p] = res]
                   /\ UNCHANGED <<stack, i, stmt>>
    /\ UNCHANGED <<argv, ns, cache, pending, ret, parseCount, reads, dirs, cls,
                   executor, made, ran, prior>>

\* command_executor, lines 137-142: the registry is indexed by parsed.command
Lookup(p) ==
    /\ pc[p] = "lookup"
    /\ IF MustCompute(p) THEN Compute(p, "lookup")
       ELSE /\ Observe(p)
            /\ IF cache[p].command \in DOMAIN Registry
               THEN /\ cls' = [cls EXCEPT ![p] = Registry[cache[p].command]]
                    /\ pc' = [pc EXCEPT ![p] = "construct"]
                    /\ err' = err
               ELSE /\ pc' = [pc EXCEPT ![p] = "key_error"]
                    /\ err' = [err EXCEPT ![p] = "KeyError"]
                    /\ cls' = cls
            /\ UNCHANGED <<fs, argv, stmt, ns, cache, ret, parseCount, dirs, i, stack,
                           executor, made, ran, created, prior>>

\* command_executor, line 142: the class is called with self.parsed
Construct(p) ==
    /\ pc[p] = "construct"
    /\ IF MustCompute(p) THEN Compute(p, "construct")
       ELSE /\ Observe(p)
            /\ executor' = [executor EXCEPT ![p] = [class |-> cls[p], config |-> cache[p].id]]
            /\ made' = [made EXCEPT ![p] = @ + 1]
            /\ pc' = [pc EXCEPT ![p] = "run"]
            /\ UNCHANGED <<fs, argv, stmt, ns, cache, ret, parseCount, dirs, i, stack,
                           cls, ran, created, err, prior>>

\* line 146: the executor's run()
ExecutorRun(p) ==
    /\ pc[p] = "run"
    /\ ran' = [ran EXCEPT ![p] = @ + 1]
    /\ stmt' = [stmt EXCEPT ![p] = @ + 1]
    /\ pc' = [pc EXCEPT ![p] = StmtPc(stmt[p] + 1)]
    /\ UNCHANGED <<fs, argv, ns, cache, pending, ret, parseCount, reads, dirs, i,
                   stack, cls, executor, made, created, err, prior>>

Next ==
    \E p \in Procs :
        \/ Main(p)
        \/ Parse(p)
        \/ Derive(p)
        \/ EnsureRead(p)
        \/ Exists(p)
        \/ MakedirsEnter(p)
        \/ Mkdir(p)
        \/ Lookup(p)
        \/ Construct(p)
        \/ ExecutorRun(p)

Spec == Init /\ [][Next]_vars

SpecRace == InitRace /\ [][Next]_vars

(* ---------------------------------------------------------------------- *)
(* Properties                                                              *)
(* ---------------------------------------------------------------------- *)
Resolved(p) == ~IsNone(cache[p])

\* the dataset flag given last on a command line, 'test' when none is given
LastDataset(args) ==
    LET at == {k \in 1..Len(args) : args[k] \in {o_dev, o_test}} IN
    IF at = {} THEN s_test
    ELSE LET last == CHOOSE k \in at : \A j \in at : j <= k
         IN  IF args[last] = o_dev THEN s_dev ELSE s_test

\* the value given last to an option on a command line, or its default
GivenOr(args, flag, default) ==
    LET at == {k \in 1..(Len(args) - 1) : args[k] = flag} IN
    IF at = {} THEN default
    ELSE args[(CHOOSE k \in at : \A j \in at : j <= k) + 1]

\* C1: the resolved run_type is 'train' for train, the dataset given last
\* ('test' by default) for evaluate, 'record' for record and 'other' for
\* search, so it is always one of train, dev, test, record, other.
C1_RunType ==
    \A p \in Procs : Resolved(p) =>
        /\ argv[p][1] = s_train => cache[p].run_type = s_train
        /\ argv[p][1] = s_evaluate => cache[p].run_type = LastDataset(argv[p])
        /\ argv[p][1] = s_record => cache[p].run_type = s_record
        /\ argv[p][1] = s_search => cache[p].run_type = s_other
        /\ cache[p].run_type \in {s_train, s_dev, s_test, s_record, s_other}

C1_Witness ==
    \E p \in Procs : /\ Resolved(p)
                     /\ argv[p] = <<s_evaluate, o_test, o_dev>>
                     /\ cache[p].run_type = s_dev

\* C2: run_train_dir is train_dir, one '/', run_name, joined as plain
\* strings with duplicate separators kept; with no flags it is train/noname.
C2_RunTrainDir ==
    \A p \in Procs : Resolved(p) =>
        LET td == GivenOr(argv[p], o_train_dir, s_train)
            rn == GivenOr(argv[p], o_run_name, s_noname)
            rtd == cache[p].run_train_dir
        IN  /\ Len(rtd) = Len(td) + 1 + Len(rn)
            /\ SubSeq(rtd, 1, Len(td)) = td
            /\ rtd[Len(td) + 1] = "/"
            /\ SubSeq(rtd, Len(td) + 2, Len(rtd)) = rn
            /\ Len(argv[p]) = 1 =>
                 rtd = <<"t","r","a","i","n","/","n","o","n","a","m","e">>

C2_Witness ==
    \E p \in Procs : /\ Resolved(p)
                     /\ cache[p].train_dir = s_tslash
                     /\ cache[p].run_name = s_r
                     /\ cache[p].run_train_dir = <<"t","/","/","r">>

\* C3: parse_args is called at most once in a process, every read of
\* self.parsed returns the one instance computed by the first read, the
\* executor is given that instance, and its values never change.
C3_Memoized ==
    /\ [](\A p \in Procs :
            /\ parseCount[p] <= 1
            /\ \A k \in 1..Len(reads[p]) : reads[p][k] = 1
            /\ Resolved(p) => cache[p].id = 1
            /\ ~IsNone(executor[p]) => executor[p].config = 1)
    /\ [][\A p \in Procs : Resolved(p) => cache'[p] = cache[p]]_vars

C3_Witness ==
    \E p \in Procs : /\ pc[p] = "done"
                     /\ Len(reads[p]) = Len(DirAttrs) + 2
                     /\ parseCount[p] = 1

\* the inputs the claim names: an unknown subcommand, a batch size that is
\* not a number
Rejected(args) ==
    /\ args # <<>>
    /\ \/ args[1] = s_bogus
       \/ \E k \in 1..(Len(args) - 1) : args[k] = o_batch_size /\ args[k + 1] = s_abc

\* C4: an input the option schema rejects ends the process with the usage
\* error, and no directory has been created and no executor constructed or
\* run by that process.
C4_RejectedInput ==
    \A p \in Procs :
        /\ Rejected(argv[p]) => /\ created[p] = {}
                                /\ made[p] = 0
                                /\ ran[p] = 0
                                /\ parseCount[p] > 0 => pc[p] = "exit_usage"
        /\ pc[p] = "exit_usage" => created[p] = {} /\ made[p] = 0 /\ ran[p] = 0

C4_Witness ==
    \E p \in Procs : /\ pc[p] = "exit_usage"
                     /\ argv[p] = <<s_train, o_batch_size, s_abc>>
                     /\ created[p] = {}

IsDirectory(path) == IsDirKind(Kind(fs, Components(path)))
IsFile(path) == Kind(fs, Components(path)) = "file"

\* C5: the executor's run() is called only when all four paths are
\* directories, and a process one of whose paths is occupied by a file
\* constructs no executor.
C5_DirectoriesExist ==
    \A p \in Procs :
        /\ ran[p] > 0 => \A k \in 1..Len(dirs[p]) : IsDirectory(dirs[p][k])
        /\ (\E k \in 1..Len(dirs[p]) : IsFile(dirs[p][k])) => made[p] = 0

\* C6: no process fails in _ensure_directories because the directory it
\* set out to create was created by the other process first.
C6_RaceTolerated ==
    \A p \in Procs :
        ~ /\ pc[p] = "io_error"
          /\ err[p] = "FileExistsError"
          /\ \E q \in Procs \ {p} : Components(stack[p][Len(stack[p])]) \in created[q]

\* C7: with no subcommand the resolver yields a configuration whose
\* run_type is 'other', the process ends with the registry's lookup
\* error, and it has created no directory.
C7_NoSubcommand ==
    \A p \in Procs : (argv[p] = <<>> /\ pc[p] \in Terminal) =>
        /\ Resolved(p)
        /\ cache[p].run_type = s_other
        /\ err[p] = "KeyError"
        /\ created[p] = {}

\* C8: every command value parse_args returns without error is a key of
\* the registry, and the registry lookup never fails.
C8_RegistryComplete ==
    \A p \in Procs :
        /\ ~IsNone(ns[p]) => ns[p].command \in DOMAIN Registry
        /\ pc[p] # "key_error"

\* C9: a run of _ensure_directories that begins after another run on the
\* same four paths has returned creates nothing and raises nothing, and no
\* run ever removes or replaces a directory.
C9_Idempotent ==
    /\ [](\A p \in Procs : \A q \in prior[p] :
            dirs[q] = dirs[p] => created[p] = {} /\ pc[p] # "io_error")
    /\ [][\A n \in DOMAIN fs : IsDirKind(fs[n]) => fs'[n] = fs[n]]_vars

C9_Witness ==
    \E p \in Procs : \E q \in prior[p] :
        /\ dirs[q] = dirs[p]
        /\ created[q] # {}
        /\ i[p] > Len(DirAttrs)
        /\ created[p] = {}

\* the phases of a process: Start, Parsed, Resolved, DirectoriesReady,
\* Dispatched, Terminal
Phase(p) == IF pc[p] \in Terminal THEN 5
            ELSE IF made[p] > 0 THEN 4
            ELSE IF i[p] > Len(DirAttrs) THEN 3
            ELSE IF Resolved(p) THEN 2
            ELSE IF ~IsNone(ns[p]) THEN 1
            ELSE 0

\* C10: a process moves through its phases in order, one at a time or
\* straight to Terminal; parsing, construction of the executor and its
\* run() happen at most once; the executor is constructed only when the
\* directories are ready; run() has been called exactly once when the
\* process completes and not at all when it aborts.
C10_Phases ==
    /\ [](\A p \in Procs :
            /\ parseCount[p] <= 1 /\ made[p] <= 1 /\ ran[p] <= 1
            /\ made[p] > 0 => i[p] > Len(DirAttrs)
            /\ i[p] > 0 => Resolved(p)
            /\ ran[p] > 0 => made[p] > 0
            /\ pc[p] = "done" => ran[p] = 1
            /\ pc[p] \in Aborted => ran[p] = 0 /\ made[p] = 0)
    /\ [][\A p \in Procs :
            /\ Phase(p)' >= Phase(p)
            /\ Phase(p)' # Phase(p) => Phase(p)' = Phase(p) + 1 \/ Phase(p)' = 5
            /\ pc[p] \in Terminal => pc'[p] = pc[p]]_vars

C10_Witness ==
    \E p \in Procs : pc[p] = "done" /\ ran[p] = 1 /\ made[p] = 1 /\ created[p] # {}

====
